---- MODULE Spec2Model ----
(***************************************************************************)
(* A model of the table and CSV renderers of libneo4j-client               *)
(* (src/lib/render.c and src/lib/render_results.c).                        *)
(*                                                                         *)
(* Text is modelled as sequences of bytes (0..255); the sink is the        *)
(* sequence of bytes written so far.  Every fputs/fputc/fwrite is one      *)
(* "chunk"; a rendering step first computes the chunks it would write and  *)
(* then either writes all of them or fails at one of them.                 *)
(***************************************************************************)
EXTENDS Integers, Sequences, FiniteSets, TLC

VARIABLES pc, out, flushes, errno, heap, ret, results, T, R, C, F, parts,
          faults

vars == <<pc, out, flushes, errno, heap, ret, results, T, R, C, F, parts,
          faults>>

(***************************************************************************)
(* Bounds of the model                                                     *)
(***************************************************************************)
MaxCell == 11
MaxQuoteLen == 5

(***************************************************************************)
(* Generic helpers                                                         *)
(***************************************************************************)
min(a, b) == IF a < b THEN a ELSE b

RECURSIVE Flatten(_)
Flatten(ws) == IF ws = <<>> THEN <<>> ELSE Head(ws) \o Flatten(Tail(ws))

RECURSIVE Repeat(_, _)
Repeat(chunk, k) == IF k <= 0 THEN <<>> ELSE <<chunk>> \o Repeat(chunk, k - 1)

\* faults tells whether the sink and the allocator of this run can fail.
\* The writes of ws that can fail: fwrite of zero bytes never reports a
\* short count.
FailPoints(ws) == IF faults THEN {k \in 1..Len(ws) : ws[k] # <<>>} ELSE {}

\* The outcomes of malloc, calloc, realloc, memdup and fflush: TRUE is
\* success.
Outcomes == IF faults THEN BOOLEAN ELSE {TRUE}

(***************************************************************************)
(* Codepoint decoding and display width (external primitives)              *)
(***************************************************************************)
u8len(b) ==
    IF b < 128 THEN 1
    ELSE IF b >= 194 /\ b <= 223 THEN 2
    ELSE IF b >= 224 /\ b <= 239 THEN 3
    ELSE IF b >= 240 /\ b <= 244 THEN 4
    ELSE 0

u8cont(s, i) == i <= Len(s) /\ s[i] >= 128 /\ s[i] <= 191

\* Decode the codepoint that starts at byte pos of s: [cp, bytes], cp = -1
\* for an invalid sequence.
neo4j_u8codepoint(s, pos) ==
    LET l == u8len(s[pos]) IN
    IF l = 0 THEN [cp |-> -1, bytes |-> 0]
    ELSE IF l = 1 THEN [cp |-> s[pos], bytes |-> 1]
    ELSE IF \E j \in 1..(l - 1) : ~u8cont(s, pos + j)
         THEN [cp |-> -1, bytes |-> 0]
    ELSE IF l = 2
         THEN [cp |-> (s[pos] - 192) * 64 + (s[pos + 1] - 128), bytes |-> 2]
    ELSE IF l = 3
         THEN [cp |-> (s[pos] - 224) * 4096 + (s[pos + 1] - 128) * 64
                       + (s[pos + 2] - 128), bytes |-> 3]
    ELSE [cp |-> (s[pos] - 240) * 262144 + (s[pos + 1] - 128) * 4096
                  + (s[pos + 2] - 128) * 64 + (s[pos + 3] - 128), bytes |-> 4]

\* Display width of a codepoint: -1 for control characters, 0 for
\* combining marks, 2 for East Asian wide characters, otherwise 1.
neo4j_u8cpwidth(cp) ==
    IF cp < 32 \/ (cp >= 127 /\ cp < 160) THEN -1
    ELSE IF cp >= 768 /\ cp <= 879 THEN 0
    ELSE IF \/ (cp >= 4352 /\ cp <= 4447)
            \/ (cp >= 11904 /\ cp <= 42191)
            \/ (cp >= 44032 /\ cp <= 55203)
            \/ (cp >= 63744 /\ cp <= 64255)
            \/ (cp >= 65280 /\ cp <= 65376)
            \/ (cp >= 131072 /\ cp <= 262141)
         THEN 2
    ELSE 1

\* Display columns a terminal shows for a sequence of output bytes.
RECURSIVE DisplayCols(_, _)
DisplayCols(s, pos) ==
    IF pos > Len(s) THEN 0
    ELSE LET d == neo4j_u8codepoint(s, pos) IN
         IF d.cp < 0 THEN 1 + DisplayCols(s, pos + 1)
         ELSE LET w == neo4j_u8cpwidth(d.cp) IN
              (IF w < 0 THEN 0 ELSE w) + DisplayCols(s, pos + d.bytes)

(***************************************************************************)
(* render.c: write_unprintable                                             *)
(***************************************************************************)
HexByte(d) == IF d < 10 THEN 48 + d ELSE 55 + d

RECURSIVE HexDigits(_, _)
HexDigits(v, k) ==
    IF k = 0 THEN <<>> ELSE Append(HexDigits(v \div 16, k - 1), HexByte(v % 16))

\* snprintf(buf, size, ...): at most size - 1 characters and a terminating
\* NUL are stored in buf.
snprintf(size, str) == SubSeq(str, 1, min(Len(str), size - 1)) \o <<0>>

\* The replacement text and its nominal length n for a codepoint.
replacement(codepoint) ==
    IF codepoint = 7 THEN [buf |-> <<92, 97>>, n |-> 2]
    ELSE IF codepoint = 8 THEN [buf |-> <<92, 98>>, n |-> 2]
    ELSE IF codepoint = 12 THEN [buf |-> <<92, 102>>, n |-> 2]
    ELSE IF codepoint = 10 THEN [buf |-> <<92, 110>>, n |-> 2]
    ELSE IF codepoint = 13 THEN [buf |-> <<92, 114>>, n |-> 2]
    ELSE IF codepoint = 9 THEN [buf |-> <<92, 116>>, n |-> 2]
    ELSE IF codepoint = 11 THEN [buf |-> <<92, 118>>, n |-> 2]
    ELSE IF codepoint <= 65535
         THEN [buf |-> snprintf(10, <<92, 117>> \o HexDigits(codepoint, 4)),
               n |-> 6]
    ELSE [buf |-> snprintf(10, <<92, 85>> \o HexDigits(codepoint, 8)),
          n |-> 10]

\* write_unprintable(stream, codepoint, width): the bytes handed to fwrite
\* and the returned length.
write_unprintable(codepoint, width) ==
    LET r == replacement(codepoint)
        towrite == min(r.n, width)
    IN [chunk |-> SubSeq(r.buf, 1, towrite), n |-> r.n]

(***************************************************************************)
(* render.c: render_field                                                  *)
(***************************************************************************)
RECURSIVE render_field_loop(_, _, _, _, _, _)
render_field_loop(s, pos, used, width, flags, ws) ==
    IF ~(used < width /\ pos <= Len(s))
    THEN [ws |-> ws, pos |-> pos, used |-> used, ok |-> TRUE]
    ELSE LET d == neo4j_u8codepoint(s, pos) IN
         IF d.cp < 0
         THEN [ws |-> ws, pos |-> pos, used |-> used, ok |-> FALSE]
         ELSE IF (d.bytes > 1 /\ "ASCII" \in flags)
                    \/ neo4j_u8cpwidth(d.cp) < 0
         THEN LET u == write_unprintable(d.cp, width) IN
              render_field_loop(s, pos + d.bytes, used + u.n, width, flags,
                                Append(ws, u.chunk))
         ELSE LET cpwidth == neo4j_u8cpwidth(d.cp) IN
              IF used + cpwidth > width
              THEN [ws |-> ws, pos |-> pos, used |-> used, ok |-> TRUE]
              ELSE render_field_loop(s, pos + d.bytes, used + cpwidth, width,
                                     flags,
                                     Append(ws, SubSeq(s, pos, pos + d.bytes - 1)))

\* render_field(stream, s, n, width, flags) on the n = Len(s) bytes of s:
\* the chunks written, the bytes consumed, and whether decoding succeeded.
render_field(s, width, flags) ==
    LET l == render_field_loop(s, 1, 0, width, flags, <<>>) IN
    IF ~l.ok THEN [ws |-> l.ws, consumed |-> -1, ok |-> FALSE]
    ELSE [ws |-> l.ws \o Repeat(<<32>>, width - l.used),
          consumed |-> l.pos - 1, ok |-> TRUE]

(***************************************************************************)
(* The sink.  out is the last line written to the stream, up to and        *)
(* including its newline once it is complete; out = <<>> exactly when no   *)
(* byte has been written.                                                  *)
(***************************************************************************)
RECURSIVE Write(_, _)
Write(o, bytes) ==
    IF bytes = <<>> THEN o
    ELSE IF o # <<>> /\ o[Len(o)] = 10
         THEN Write(<<Head(bytes)>>, Tail(bytes))
         ELSE Write(Append(o, Head(bytes)), Tail(bytes))

\* The first k chunks of ws reach the sink.
Emit(o, ws, k) == Write(o, Flatten(SubSeq(ws, 1, k)))

(***************************************************************************)
(* render_results.c: write_csv_quoted_string                               *)
(***************************************************************************)
\* memchr(s + pos - 1, c, n): the index in s of the first c among the n
\* bytes that start at pos, or 0.
memchr(s, pos, c, n) ==
    LET hits == {j \in pos..(pos + n - 1) : j <= Len(s) /\ s[j] = c} IN
    IF hits = {} THEN 0 ELSE CHOOSE j \in hits : \A h \in hits : j <= h

csv_quote_single == <<34>>

\* Line 370: fputs("\"\"", stream).
csv_quote_doubled == <<34, 34>>

RECURSIVE write_csv_quoted_loop(_, _, _, _)
write_csv_quoted_loop(s, pos, n, ws) ==
    IF ~(pos < Len(s) + 1) THEN ws
    ELSE LET c == memchr(s, pos, 34, n) IN
         IF c = 0 THEN Append(ws, SubSeq(s, pos, pos + n - 1))
         ELSE LET l == c - pos IN
              write_csv_quoted_loop(s, c + 1, n - (l + 1),
                  ws \o <<SubSeq(s, pos, pos + l - 1), csv_quote_doubled>>)

\* The chunks write_csv_quoted_string(stream, s, n) writes for n = Len(s).
write_csv_quoted_string(s) ==
    write_csv_quoted_loop(s, 1, Len(s), <<<<34>>>>) \o <<<<34>>>>

(***************************************************************************)
(* Frames of the functions that are not running                            *)
(***************************************************************************)
NoT == [width |-> 0, flags |-> {}, nfields |-> 0, column_width |-> 0,
        undersize |-> FALSE, widths |-> <<>>, bufcap |-> 0, buffer |-> <<>>,
        first |-> TRUE, err |-> ""]

NoR == [ncolumns |-> 0, widths |-> <<>>, undersize |-> FALSE, flags |-> {},
        callback |-> "", caller |-> "", i |-> 0, fields |-> <<>>,
        wrap |-> FALSE, err |-> 0, lines |-> 0, texts |-> <<>>,
        ranges |-> <<>>]

\* The frame of a render_row call that has just been entered.  lines counts
\* the newlines the call has written, texts[i] is the text the callback
\* returned for column i, and ranges[i] lists, call by call, the offset in
\* that text at which render_field was started and the bytes it consumed.
RowFrame(ncolumns, widths, undersize, flags, callback, caller) ==
    [ncolumns |-> ncolumns, widths |-> widths, undersize |-> undersize,
     flags |-> flags, callback |-> callback, caller |-> caller, i |-> 0,
     fields |-> <<>>, wrap |-> FALSE, err |-> -1, lines |-> 0,
     texts |-> [j \in 1..ncolumns |-> <<>>],
     ranges |-> [j \in 1..ncolumns |-> <<>>]]

\* Heap blocks: the column widths, the staging buffer, the wrap state
\* array, and the duplicated remainder of column i.
Block(kind, i) == [kind |-> kind, i |-> i]

NoValue == [type |-> "NULL", str |-> <<>>]

NoC == [flags |-> {}, nfields |-> 0, i |-> 0, bufcap |-> 0, buffer |-> <<>>,
        err |-> "", value |-> NoValue]

NoF == [s |-> <<>>, width |-> 0, flags |-> {}]

NoResults == [nfields |-> 0, failure |-> "", fetched |-> 0, eof |-> FALSE,
              checks |-> 0, names |-> {}, values |-> {}]

(***************************************************************************)
(* Specification SpecField: render_field applied to bounded inputs         *)
(***************************************************************************)
\* "a", tab, U+0001, e-acute, a CJK ideograph, an emoji, a combining
\* accent, and a byte that is not valid UTF-8.
FieldAlphabet ==
    {<<97>>, <<9>>, <<1>>, <<195, 169>>, <<228, 184, 173>>,
     <<240, 159, 152, 128>>, <<204, 129>>, <<255>>}

MaxCps == 3

RECURSIVE TextsOver(_, _)
TextsOver(alphabet, k) ==
    IF k = 0 THEN {<<>>}
    ELSE LET shorter == TextsOver(alphabet, k - 1) IN
         shorter \cup {t \o a : t \in shorter, a \in alphabet}

FieldTexts == TextsOver(FieldAlphabet, MaxCps)

InitField ==
    /\ pc = "render_field"
    /\ F \in [s : FieldTexts, width : 0..MaxCell, flags : SUBSET {"ASCII"}]
    /\ out = <<>> /\ flushes = 0 /\ errno = "" /\ heap = {} /\ ret = 0
    /\ results = NoResults /\ T = NoT /\ R = NoR /\ C = NoC
    /\ parts = <<>>
    /\ faults = TRUE

call_render_field ==
    /\ UNCHANGED faults
    /\ pc = "render_field"
    /\ LET rf == render_field(F.s, F.width, F.flags) IN
       \E f \in FailPoints(rf.ws) \cup {0} :
          IF f # 0
          THEN /\ out' = Emit(out, rf.ws, f - 1)
               /\ errno' = "EIO"
               /\ ret' = -1
          ELSE /\ out' = Emit(out, rf.ws, Len(rf.ws))
               /\ errno' = IF rf.ok THEN errno ELSE "EILSEQ"
               /\ ret' = rf.consumed
    /\ pc' = "done"
    /\ UNCHANGED <<flushes, heap, results, T, R, C, F, parts>>

NextField == call_render_field

SpecField == InitField /\ [][NextField]_vars

(***************************************************************************)
(* Specification SpecQuote: write_csv_quoted_string on bounded inputs      *)
(***************************************************************************)
\* "a", the double quote and the comma.
QuoteTexts == TextsOver({<<97>>, <<34>>, <<44>>}, MaxQuoteLen)

InitQuote ==
    /\ pc = "write_csv_quoted_string"
    /\ F \in [s : QuoteTexts, width : {0}, flags : {{}}]
    /\ out = <<>> /\ flushes = 0 /\ errno = "" /\ heap = {} /\ ret = 0
    /\ results = NoResults /\ T = NoT /\ R = NoR /\ C = NoC
    /\ parts = <<>>
    /\ faults = TRUE

call_write_csv_quoted_string ==
    /\ UNCHANGED faults
    /\ pc = "write_csv_quoted_string"
    /\ LET ws == write_csv_quoted_string(F.s) IN
       \E f \in FailPoints(ws) \cup {0} :
          IF f # 0
          THEN /\ out' = Emit(out, ws, f - 1)
               /\ errno' = "EIO"
               /\ ret' = -1
          ELSE /\ out' = Emit(out, ws, Len(ws))
               /\ errno' = errno
               /\ ret' = 0
    /\ pc' = "done"
    /\ UNCHANGED <<flushes, heap, results, T, R, C, F, parts>>

NextQuote == call_write_csv_quoted_string

SpecQuote == InitQuote /\ [][NextQuote]_vars

(***************************************************************************)
(* render.c: border glyphs, normalize_render_flags, render_hrule           *)
(***************************************************************************)
ascii_border_glifs ==
    [horizontal_line |-> <<45>>, head_line |-> <<45>>,
     vertical_line |-> <<124>>,
     top_corners |-> <<<<43>>, <<43>>, <<43>>>>,
     head_corners |-> <<<<43>>, <<43>>, <<43>>>>,
     middle_corners |-> <<<<43>>, <<43>>, <<43>>>>,
     bottom_corners |-> <<<<43>>, <<43>>, <<43>>>>,
     overflow |-> <<61>>]

u8_border_glifs ==
    [horizontal_line |-> <<226, 148, 128>>, head_line |-> <<226, 149, 144>>,
     vertical_line |-> <<226, 148, 130>>,
     top_corners |-> <<<<226, 148, 140>>, <<226, 148, 172>>, <<226, 148, 144>>>>,
     head_corners |-> <<<<226, 149, 158>>, <<226, 149, 170>>, <<226, 149, 161>>>>,
     middle_corners |-> <<<<226, 148, 156>>, <<226, 148, 188>>, <<226, 148, 164>>>>,
     bottom_corners |-> <<<<226, 148, 148>>, <<226, 148, 180>>, <<226, 148, 152>>>>,
     overflow |-> <<226, 128, 166>>]

\* codeset_utf8: nl_langinfo(CODESET) is "UTF-8".
normalize_render_flags(flags, codeset_utf8) ==
    IF "ASCII" \in flags THEN flags \cup {"ASCII_ART"}
    ELSE IF ~codeset_utf8 THEN flags \cup {"ASCII_ART"}
    ELSE flags

glifs_for_encoding(flags) ==
    IF "ASCII_ART" \notin flags THEN u8_border_glifs ELSE ascii_border_glifs

hrule_corners(glifs, position) ==
    IF position = "HLINE_TOP" THEN glifs.top_corners
    ELSE IF position = "HLINE_HEAD" THEN glifs.head_corners
    ELSE IF position = "HLINE_BOTTOM" THEN glifs.bottom_corners
    ELSE glifs.middle_corners

hrule_line(glifs, position) ==
    IF position = "HLINE_HEAD" THEN glifs.head_line ELSE glifs.horizontal_line

RECURSIVE render_hrule_columns(_, _, _, _, _, _)
render_hrule_columns(i, corner, ncolumns, widths, corners, line) ==
    IF i > ncolumns THEN <<>>
    ELSE IF widths[i] = 0
         THEN render_hrule_columns(i + 1, corner, ncolumns, widths, corners, line)
         ELSE <<corners[corner + 1]>> \o Repeat(line, widths[i])
              \o render_hrule_columns(i + 1, 1, ncolumns, widths, corners, line)

\* The chunks render_hrule writes.
render_hrule(ncolumns, widths, position, undersize, flags) ==
    LET glifs == glifs_for_encoding(flags)
        corners == hrule_corners(glifs, position)
        line == hrule_line(glifs, position)
    IN render_hrule_columns(1, 0, ncolumns, widths, corners, line)
       \o <<corners[IF undersize THEN 2 ELSE 3]>>
       \o (IF undersize THEN <<line>> ELSE <<>>)
       \o <<<<10>>>>

(***************************************************************************)
(* The result stream and value stringification (external)                  *)
(***************************************************************************)
neo4j_check_failure(rs) == rs.failure

neo4j_nfields(rs) == rs.nfields

STATEMENT_FAILED == "NEO4J_STATEMENT_EVALUATION_FAILED"

RECURSIVE EscapeQuotes(_)
EscapeQuotes(s) ==
    IF s = <<>> THEN <<>>
    ELSE (IF Head(s) = 34 THEN <<92, 34>> ELSE <<Head(s)>>)
         \o EscapeQuotes(Tail(s))

\* The full text neo4j_ntostring produces for a value: a string is quoted,
\* every other value has the text it carries.
ValueText(value) ==
    IF value.type = "STRING" THEN <<34>> \o EscapeQuotes(value.str) \o <<34>>
    ELSE value.str

\* neo4j_ntostring(value, buf, n): buf receives at most n - 1 bytes and a
\* NUL; the length of the full text is returned.
neo4j_ntostring(value, n) ==
    LET text == ValueText(value) IN
    [buf |-> SubSeq(text, 1, min(Len(text), n - 1)) \o <<0>>,
     length |-> Len(text)]

\* The bytes of a NUL-terminated buffer before the NUL.
RECURSIVE CString(_)
CString(buf) ==
    IF buf = <<>> \/ Head(buf) = 0 THEN <<>>
    ELSE <<Head(buf)>> \o CString(Tail(buf))

(***************************************************************************)
(* render_results.c: column budgeting of neo4j_render_table                *)
(***************************************************************************)
\* unsigned int arithmetic wraps; the word is modelled with 16 bits.
UINT_MOD == 65536

column_width_unguarded(width, nfields) ==
    IF nfields = 0 THEN 0
    ELSE (((width - nfields - 1) % UINT_MOD) \div nfields) % UINT_MOD

column_width_of(width, nfields) ==
    IF nfields = 0 \/ width <= (nfields + 1) THEN 0
    ELSE (((width - nfields - 1) % UINT_MOD) \div nfields) % UINT_MOD

RECURSIVE elide_columns(_, _, _, _)
elide_columns(width, nfields, column_width, undersize) ==
    IF column_width < 2 /\ nfields > 0
    THEN elide_columns(width, nfields - 1,
                       column_width_of(width, nfields - 1), TRUE)
    ELSE [nfields |-> nfields, column_width |-> column_width,
          undersize |-> undersize]

(***************************************************************************)
(* render_results.c: value_tostring, render_field_value                    *)
(***************************************************************************)
value_tostring(value, n, flags) ==
    IF "SHOW_NULLS" \notin flags /\ value.type = "NULL"
    THEN [buf |-> <<0>>, length |-> 0]
    ELSE neo4j_ntostring(value, n)

\* render_field_value: stringify into the staging buffer, growing it while
\* the text does not fit.  failat is the number of the realloc call that
\* fails (0: none fails).  Returns the length (-1 on failure), the staging
\* buffer and its capacity afterwards, and the number of realloc calls.
RECURSIVE render_field_value(_, _, _, _, _, _)
render_field_value(value, buf, bufcap, flags, failat, grown) ==
    LET t == value_tostring(value, bufcap, flags) IN
    IF t.length < bufcap
    THEN [length |-> t.length, buf |-> t.buf, bufcap |-> bufcap,
          grown |-> grown]
    ELSE IF failat = grown + 1
         THEN [length |-> -1, buf |-> t.buf, bufcap |-> bufcap,
               grown |-> grown + 1]
         ELSE render_field_value(value, t.buf, t.length + 1, flags, failat,
                                 grown + 1)

(***************************************************************************)
(* render_results.c: the row callbacks                                     *)
(***************************************************************************)
obtain_fieldname(name, buf, bufcap) ==
    [s |-> name, n |-> Len(name), duplicate |-> FALSE,
     buf |-> buf, bufcap |-> bufcap]

obtain_result_field(value, buf, bufcap, flags, failat) ==
    IF value.type = "STRING" /\ "QUOTE_STRINGS" \notin flags
    THEN [s |-> value.str, n |-> Len(value.str), duplicate |-> FALSE,
          buf |-> buf, bufcap |-> bufcap]
    ELSE LET r == render_field_value(value, buf, bufcap, flags, failat, 0) IN
         [s |-> IF r.length < 0 THEN <<>> ELSE SubSeq(r.buf, 1, r.length),
          n |-> r.length, duplicate |-> TRUE,
          buf |-> r.buf, bufcap |-> r.bufcap]

\* What the callback of the running render_row call can hand back.
CallbackResults ==
    IF R.callback = "obtain_fieldname"
    THEN {obtain_fieldname(name, T.buffer, T.bufcap) : name \in results.names}
    ELSE {obtain_result_field(value, T.buffer, T.bufcap, R.flags, failat) :
              value \in results.values, failat \in IF faults THEN 0..1 ELSE {0}}

(***************************************************************************)
(* render.c: render_row                                                    *)
(***************************************************************************)
MaxLines == 5

\* Where control continues when render_row returns err to its caller.
ReturnTo(caller, err) ==
    IF caller = "test" THEN "done"
    ELSE IF err # 0 THEN "table_failure"
    ELSE IF caller = "header" THEN "table_head_rule"
    ELSE "table_fetch"

RowReturns(err) ==
    /\ pc' = ReturnTo(R.caller, err)
    /\ ret' = IF R.caller = "test" THEN err ELSE ret

GotoCleanup(e) ==
    /\ pc' = "row_cleanup"
    /\ errno' = e

\* Lines 239-245: allocate the wrap state when wrapping is requested.
render_row_enter ==
    /\ UNCHANGED faults
    /\ pc = "row_enter"
    /\ IF "WRAP_VALUES" \in R.flags
       THEN \E ok \in Outcomes :
            IF ok
            THEN /\ heap' = heap \cup {Block("fields", 0)}
                 /\ R' = [R EXCEPT !.i = 1,
                            !.fields = [j \in 1..R.ncolumns |->
                                [s |-> <<>>, n |-> 0, dup |-> FALSE]]]
                 /\ pc' = "row_column"
                 /\ UNCHANGED <<errno, ret>>
            ELSE /\ errno' = "ENOMEM"
                 /\ RowReturns(-1)
                 /\ UNCHANGED <<heap, R>>
       ELSE /\ R' = [R EXCEPT !.i = 1]
            /\ pc' = "row_column"
            /\ UNCHANGED <<heap, errno, ret>>
    /\ UNCHANGED <<out, flushes, results, T, C, F, parts>>

field_overflows_always(consumed, n) == consumed <= n

\* Lines 279 and 352: the field was not consumed to its end.
field_overflows(consumed, n) == ~(consumed >= n)

\* Lines 250-310: one column of the first line of the row.
render_row_column ==
    /\ UNCHANGED faults
    /\ pc = "row_column" /\ R.i <= R.ncolumns
    /\ UNCHANGED <<flushes, ret, results, C, F, parts>>
    /\ IF R.widths[R.i] = 0
       THEN /\ R' = [R EXCEPT !.i = @ + 1]
            /\ UNCHANGED <<pc, out, errno, heap, T>>
       ELSE LET glifs == glifs_for_encoding(R.flags)
                value_width == (R.widths[R.i] - 2) % UINT_MOD
                pre == <<glifs.vertical_line, <<32>>>>
            IN
            \/ \E f \in FailPoints(pre) :
                  /\ out' = Emit(out, pre, f - 1)
                  /\ GotoCleanup("EIO")
                  /\ UNCHANGED <<heap, T, R>>
            \/ \E cb \in CallbackResults :
                  /\ T' = [T EXCEPT !.buffer = cb.buf, !.bufcap = cb.bufcap]
                  /\ IF cb.n < 0
                     THEN /\ out' = Emit(out, pre, 2)
                          /\ GotoCleanup("ENOMEM")
                          /\ UNCHANGED <<heap, R>>
                     ELSE
                     LET rf == render_field(cb.s, value_width, R.flags)
                         more == rf.ok /\ field_overflows(rf.consumed, cb.n)
                         ws == pre \o rf.ws \o
                               (IF ~rf.ok THEN <<>>
                                ELSE IF more THEN <<glifs.overflow>>
                                ELSE <<<<32>>>>)
                         rest == [s |-> SubSeq(cb.s, rf.consumed + 1, cb.n),
                                  n |-> cb.n - rf.consumed,
                                  dup |-> cb.duplicate]
                         first == <<[from |-> 0, len |-> rf.consumed]>>
                     IN
                     \/ \E f \in FailPoints(ws) \ {1, 2} :
                           /\ out' = Emit(out, ws, f - 1)
                           /\ GotoCleanup("EIO")
                           /\ R' = [R EXCEPT !.texts[R.i] = cb.s]
                           /\ UNCHANGED heap
                     \/ /\ ~rf.ok
                        /\ out' = Emit(out, ws, Len(ws))
                        /\ GotoCleanup("EILSEQ")
                        /\ R' = [R EXCEPT !.texts[R.i] = cb.s]
                        /\ UNCHANGED heap
                     \/ /\ rf.ok
                        /\ out' = Emit(out, ws, Len(ws))
                        /\ IF more /\ "WRAP_VALUES" \in R.flags
                           THEN IF cb.duplicate
                                THEN \E ok \in Outcomes :
                                     IF ok
                                     THEN /\ heap' = heap \cup {Block("dup", R.i)}
                                          /\ R' = [R EXCEPT !.fields[R.i] = rest,
                                                     !.texts[R.i] = cb.s,
                                                     !.ranges[R.i] = first,
                                                     !.wrap = TRUE, !.i = @ + 1]
                                          /\ UNCHANGED <<pc, errno>>
                                     ELSE /\ GotoCleanup("ENOMEM")
                                          /\ R' = [R EXCEPT !.texts[R.i] = cb.s]
                                          /\ UNCHANGED heap
                                ELSE /\ R' = [R EXCEPT !.fields[R.i] = rest,
                                                !.texts[R.i] = cb.s,
                                                !.ranges[R.i] = first,
                                                !.wrap = TRUE, !.i = @ + 1]
                                     /\ UNCHANGED <<pc, errno, heap>>
                           ELSE /\ R' = [R EXCEPT !.texts[R.i] = cb.s,
                                           !.ranges[R.i] = first,
                                           !.i = @ + 1]
                                /\ UNCHANGED <<pc, errno, heap>>

\* The chunks that close a line: lines 312-323 and 372-383.
row_line_end(glifs, undersize) ==
    <<glifs.vertical_line>> \o (IF undersize THEN <<glifs.overflow>> ELSE <<>>)
    \o <<<<10>>>>

\* Lines 312-327: close the first line and test the wrap loop.
render_row_eol ==
    /\ UNCHANGED faults
    /\ pc = "row_column" /\ R.i > R.ncolumns
    /\ LET ws == row_line_end(glifs_for_encoding(R.flags), R.undersize) IN
       \/ \E f \in FailPoints(ws) :
             /\ out' = Emit(out, ws, f - 1)
             /\ GotoCleanup("EIO")
             /\ UNCHANGED R
       \/ /\ out' = Emit(out, ws, Len(ws))
          /\ IF R.wrap
             THEN /\ R' = [R EXCEPT !.wrap = FALSE, !.i = 1, !.lines = @ + 1]
                  /\ pc' = "row_wrap_column"
             ELSE /\ R' = [R EXCEPT !.err = 0, !.lines = @ + 1]
                  /\ pc' = "row_cleanup"
          /\ UNCHANGED errno
    /\ UNCHANGED <<flushes, heap, ret, results, T, C, F, parts>>

\* Lines 329-370: one column of a continuation line.
render_row_wrap_column ==
    /\ UNCHANGED faults
    /\ pc = "row_wrap_column" /\ R.i <= R.ncolumns
    /\ UNCHANGED <<flushes, heap, ret, results, T, C, F, parts>>
    /\ IF R.widths[R.i] = 0
       THEN /\ R' = [R EXCEPT !.i = @ + 1]
            /\ UNCHANGED <<pc, out, errno>>
       ELSE LET glifs == glifs_for_encoding(R.flags)
                value_width == (R.widths[R.i] - 2) % UINT_MOD
                n == R.fields[R.i].n
                s == R.fields[R.i].s
                rf == render_field(s, value_width, R.flags)
                more == rf.ok /\ field_overflows(rf.consumed, n)
                ws == <<glifs.vertical_line,
                        IF n > 0 THEN glifs.overflow ELSE <<32>>>>
                      \o rf.ws \o
                      (IF ~rf.ok THEN <<>>
                       ELSE IF more THEN <<glifs.overflow>>
                       ELSE <<<<32>>>>)
                range == [from |-> Len(R.texts[R.i]) - n,
                          len |-> rf.consumed]
            IN
            \/ \E f \in FailPoints(ws) :
                  /\ out' = Emit(out, ws, f - 1)
                  /\ GotoCleanup("EIO")
                  /\ UNCHANGED R
            \/ /\ ~rf.ok
               /\ out' = Emit(out, ws, Len(ws))
               /\ GotoCleanup("EILSEQ")
               /\ UNCHANGED R
            \/ /\ rf.ok
               /\ out' = Emit(out, ws, Len(ws))
               /\ R' = IF more
                       THEN [R EXCEPT
                               !.fields[R.i].s = SubSeq(s, rf.consumed + 1, n),
                               !.fields[R.i].n = n - rf.consumed,
                               !.ranges[R.i] = Append(@, range),
                               !.wrap = TRUE, !.i = @ + 1]
                       ELSE [R EXCEPT !.ranges[R.i] = Append(@, range),
                                      !.i = @ + 1]
               /\ UNCHANGED <<pc, errno>>

\* Lines 372-384 and 325-327: close a continuation line and test the loop.
render_row_wrap_eol ==
    /\ UNCHANGED faults
    /\ pc = "row_wrap_column" /\ R.i > R.ncolumns
    /\ R.lines < MaxLines
    /\ LET ws == row_line_end(glifs_for_encoding(R.flags), R.undersize) IN
       \/ \E f \in FailPoints(ws) :
             /\ out' = Emit(out, ws, f - 1)
             /\ GotoCleanup("EIO")
             /\ UNCHANGED R
       \/ /\ out' = Emit(out, ws, Len(ws))
          /\ IF R.wrap
             THEN /\ R' = [R EXCEPT !.wrap = FALSE, !.i = 1, !.lines = @ + 1]
                  /\ pc' = "row_wrap_column"
             ELSE /\ R' = [R EXCEPT !.err = 0, !.lines = @ + 1]
                  /\ pc' = "row_cleanup"
          /\ UNCHANGED errno
    /\ UNCHANGED <<flushes, heap, ret, results, T, C, F, parts>>

\* The blocks the cleanup of render_row frees when fields is not NULL.
row_blocks(ncolumns) ==
    {Block("fields", 0)} \cup {Block("dup", j) : j \in 1..ncolumns}

\* Lines 388-400: free the wrap state, keep errno, return err.
render_row_cleanup ==
    /\ UNCHANGED faults
    /\ pc = "row_cleanup"
    /\ heap' = IF Block("fields", 0) \in heap
               THEN heap \ row_blocks(R.ncolumns) ELSE heap
    /\ RowReturns(R.err)
    /\ T' = IF R.caller = "body" /\ R.err = 0
            THEN [T EXCEPT !.first = FALSE] ELSE T
    /\ UNCHANGED <<out, flushes, errno, results, R, C, F, parts>>

(***************************************************************************)
(* render_results.c: neo4j_render_table                                    *)
(***************************************************************************)
\* Bounds on the calls the model makes.
RENDER_MAX_WIDTH == 8
MaxFields == 2
MaxRows == 2

\* "n" and "name".
TableNames == {<<110>>, <<110, 97, 109, 101>>}

\* The strings "ab" and "abcdef", null, and the integers 12 and 123456.
TableValues ==
    {[type |-> "STRING", str |-> <<97, 98>>],
     [type |-> "STRING", str |-> <<97, 98, 99, 100, 101, 102>>],
     [type |-> "NULL", str |-> <<110, 117, 108, 108>>],
     [type |-> "INT", str |-> <<49, 50>>],
     [type |-> "INT", str |-> <<49, 50, 51, 52, 53, 54>>]}

TableFlags == {"ASCII", "WRAP_VALUES", "ROW_LINES", "QUOTE_STRINGS",
               "SHOW_NULLS"}

no_fields_never(nfields) == nfields < 0

\* Lines 68 and 271: the result stream has no fields.
no_fields(nfields) == nfields = 0

failure_errno_of_flush(errsv, flushed) == flushed

\* Lines 172-176 and 332-338: errno as it was before the flush and the
\* frees, whatever errno the flush left.
failure_errno(errsv, flushed) == errsv

\* A caller invokes neo4j_render_table(stream, results, width, flags).
neo4j_render_table ==
    /\ UNCHANGED faults
    /\ pc = "idle"
    /\ \E width \in 2..(RENDER_MAX_WIDTH - 1), flags \in SUBSET TableFlags,
          nfields \in 0..MaxFields, failure \in {"", STATEMENT_FAILED} :
          /\ T' = [NoT EXCEPT !.width = width, !.flags = flags]
          /\ results' = [NoResults EXCEPT !.nfields = nfields,
                           !.failure = failure, !.names = TableNames,
                           !.values = TableValues]
    /\ pc' = "table_check_failure"
    /\ UNCHANGED <<out, flushes, errno, heap, ret, R, C, F, parts>>

\* Lines 60-73: the first failure check, the field count, the flags.
table_check_failure ==
    /\ UNCHANGED faults
    /\ pc = "table_check_failure"
    /\ LET err == neo4j_check_failure(results) IN
       /\ results' = [results EXCEPT !.checks = @ + 1]
       /\ IF err # ""
          THEN /\ errno' = err
               /\ ret' = -1
               /\ pc' = "done"
               /\ T' = [T EXCEPT !.err = err]
          ELSE IF no_fields(neo4j_nfields(results))
          THEN /\ ret' = 0
               /\ pc' = "done"
               /\ T' = [T EXCEPT !.err = err]
               /\ UNCHANGED errno
          ELSE /\ \E codeset_utf8 \in BOOLEAN :
                    T' = [T EXCEPT !.err = err,
                            !.nfields = neo4j_nfields(results),
                            !.flags = normalize_render_flags(T.flags,
                                                             codeset_utf8)]
               /\ pc' = "table_column_widths"
               /\ UNCHANGED <<errno, ret>>
    /\ UNCHANGED <<out, flushes, heap, R, C, F, parts>>

\* Lines 75-87: the column width and the elision of trailing columns.
table_column_widths ==
    /\ UNCHANGED faults
    /\ pc = "table_column_widths"
    /\ LET e == elide_columns(T.width, T.nfields,
                              column_width_of(T.width, T.nfields), FALSE) IN
       T' = [T EXCEPT !.nfields = e.nfields, !.column_width = e.column_width,
               !.undersize = e.undersize]
    /\ pc' = "table_alloc_widths"
    /\ UNCHANGED <<out, flushes, errno, heap, ret, results, R, C, F, parts>>

\* Lines 89-99: the array of column widths.
table_alloc_widths ==
    /\ UNCHANGED faults
    /\ pc = "table_alloc_widths"
    /\ \/ /\ faults /\ T.nfields > 0
          /\ errno' = "ENOMEM"
          /\ ret' = -1
          /\ pc' = "done"
          /\ UNCHANGED <<heap, T>>
       \/ /\ heap' = IF T.nfields > 0 THEN heap \cup {Block("widths", 0)}
                     ELSE heap
          /\ T' = [T EXCEPT !.widths = [i \in 1..T.nfields |-> T.column_width]]
          /\ pc' = "table_alloc_buffer"
          /\ UNCHANGED <<errno, ret>>
    /\ UNCHANGED <<out, flushes, results, R, C, F, parts>>

\* Lines 101-107: the staging buffer.
table_alloc_buffer ==
    /\ UNCHANGED faults
    /\ pc = "table_alloc_buffer"
    /\ \/ /\ faults /\ T.column_width > 0
          /\ errno' = "ENOMEM"
          /\ pc' = "table_failure"
          /\ T' = [T EXCEPT !.bufcap = T.column_width]
          /\ UNCHANGED heap
       \/ /\ heap' = IF T.column_width > 0 THEN heap \cup {Block("buffer", 0)}
                     ELSE heap
          /\ T' = [T EXCEPT !.bufcap = T.column_width]
          /\ pc' = "table_top_rule"
          /\ UNCHANGED errno
    /\ UNCHANGED <<out, flushes, ret, results, R, C, F, parts>>

\* A call of render_hrule from neo4j_render_table, and the goto failure
\* that follows a non-zero result.
TableRule(position, part, next) ==
    /\ parts' = Append(parts, part)
    /\ LET ws == render_hrule(T.nfields, T.widths, position, T.undersize,
                              T.flags) IN
       \/ \E f \in FailPoints(ws) :
             /\ out' = Emit(out, ws, f - 1)
             /\ errno' = "EIO"
             /\ pc' = "table_failure"
       \/ /\ out' = Emit(out, ws, Len(ws))
          /\ pc' = next
          /\ UNCHANGED errno
    /\ UNCHANGED <<flushes, heap, ret, results, T, R, C, F>>

\* A call of render_row from neo4j_render_table.
TableRow(callback, caller, part) ==
    /\ parts' = Append(parts, part)
    /\ R' = RowFrame(T.nfields, T.widths, T.undersize, T.flags, callback,
                     caller)
    /\ pc' = "row_enter"
    /\ UNCHANGED <<out, flushes, errno, heap, ret, results, T, C, F>>

\* Lines 109-112.
table_top_rule ==
    /\ UNCHANGED faults
    /\ pc = "table_top_rule"
    /\ TableRule("HLINE_TOP", "top", "table_header_row")

\* Lines 114-120.
table_header_row ==
    /\ UNCHANGED faults
    /\ pc = "table_header_row"
    /\ TableRow("obtain_fieldname", "header", "header")

\* Lines 122-125.
table_head_rule ==
    /\ UNCHANGED faults
    /\ pc = "table_head_rule"
    /\ TableRule("HLINE_HEAD", "head", "table_fetch")

wants_middle_rule_always(first, flags) == "ROW_LINES" \in flags

\* Line 132: a rule separates this row from the one before it.
wants_middle_rule(first, flags) == ~first /\ "ROW_LINES" \in flags

\* Line 129: neo4j_fetch_next yields another row, or NULL at the end of the
\* stream or when the stream fails.
table_fetch ==
    /\ UNCHANGED faults
    /\ pc = "table_fetch"
    /\ \/ /\ results.fetched < MaxRows
          /\ results' = [results EXCEPT !.fetched = @ + 1]
          /\ pc' = IF wants_middle_rule(T.first, T.flags)
                   THEN "table_middle_rule" ELSE "table_body_row"
       \/ /\ \E failure \in {"", STATEMENT_FAILED} :
                results' = [results EXCEPT !.eof = TRUE, !.failure = failure]
          /\ pc' = "table_check_failure2"
    /\ UNCHANGED <<out, flushes, errno, heap, ret, T, R, C, F, parts>>

\* Lines 132-137.
table_middle_rule ==
    /\ UNCHANGED faults
    /\ pc = "table_middle_rule"
    /\ TableRule("HLINE_MIDDLE", "middle", "table_body_row")

\* Lines 139-146.
table_body_row ==
    /\ UNCHANGED faults
    /\ pc = "table_body_row"
    /\ TableRow("obtain_result_field", "body", "row")

\* Lines 149-154: the failure check after the last row.
table_check_failure2 ==
    /\ UNCHANGED faults
    /\ pc = "table_check_failure2"
    /\ LET err == neo4j_check_failure(results) IN
       /\ results' = [results EXCEPT !.checks = @ + 1]
       /\ T' = [T EXCEPT !.err = err]
       /\ IF err # ""
          THEN /\ errno' = err
               /\ pc' = "table_failure"
          ELSE /\ pc' = "table_bottom_rule"
               /\ UNCHANGED errno
    /\ UNCHANGED <<out, flushes, heap, ret, R, C, F, parts>>

\* Lines 156-159.
table_bottom_rule ==
    /\ UNCHANGED faults
    /\ pc = "table_bottom_rule"
    /\ TableRule("HLINE_BOTTOM", "bottom", "table_flush")

\* Lines 161-168: flush, release the buffers, return 0.
table_flush ==
    /\ UNCHANGED faults
    /\ pc = "table_flush"
    /\ flushes' = flushes + 1
    /\ \/ /\ faults
          /\ errno' = "EIO"
          /\ ret' = -1
          /\ UNCHANGED heap
       \/ /\ heap' = heap \ {Block("widths", 0), Block("buffer", 0)}
          /\ ret' = 0
          /\ UNCHANGED errno
    /\ pc' = "done"
    /\ UNCHANGED <<out, results, T, R, C, F, parts>>

\* Lines 170-177: flush, release the buffers, restore errno, return -1.
table_failure ==
    /\ UNCHANGED faults
    /\ pc = "table_failure"
    /\ flushes' = flushes + 1
    /\ \E ok \in Outcomes :
          errno' = failure_errno(errno, IF ok THEN errno ELSE "EIO")
    /\ heap' = heap \ {Block("widths", 0), Block("buffer", 0)}
    /\ ret' = -1
    /\ pc' = "done"
    /\ UNCHANGED <<out, results, T, R, C, F, parts>>

(***************************************************************************)
(* render_results.c: neo4j_render_csv and write_value                      *)
(***************************************************************************)
\* The initial capacity of the CSV staging buffer, scaled down.
NEO4J_FIELD_BUFFER_INITIAL_CAPACITY == 8

\* The string a"b, null, the integers 12 and 123456789, and the list ["a"].
CsvValues ==
    {[type |-> "STRING", str |-> <<97, 34, 98>>],
     [type |-> "NULL", str |-> <<110, 117, 108, 108>>],
     [type |-> "INT", str |-> <<49, 50>>],
     [type |-> "INT", str |-> <<49, 50, 51, 52, 53, 54, 55, 56, 57>>],
     [type |-> "LIST", str |-> <<91, 34, 97, 34, 93>>]}

\* "n" and n"m.
CsvNames == {<<110>>, <<110, 34, 109>>}

\* A caller invokes neo4j_render_csv(stream, results, flags).
neo4j_render_csv ==
    /\ UNCHANGED faults
    /\ pc = "idle"
    /\ \E flags \in SUBSET {"SHOW_NULLS"}, nfields \in 0..MaxFields,
          failure \in {"", STATEMENT_FAILED} :
          /\ C' = [NoC EXCEPT !.flags = flags]
          /\ results' = [NoResults EXCEPT !.nfields = nfields,
                           !.failure = failure, !.names = CsvNames,
                           !.values = CsvValues]
    /\ pc' = "csv_alloc"
    /\ UNCHANGED <<out, flushes, errno, heap, ret, T, R, F, parts>>

\* Lines 256-261: the staging buffer.
csv_alloc ==
    /\ UNCHANGED faults
    /\ pc = "csv_alloc"
    /\ \/ /\ faults
          /\ errno' = "ENOMEM"
          /\ ret' = -1
          /\ pc' = "done"
          /\ UNCHANGED <<heap, C>>
       \/ /\ heap' = heap \cup {Block("buffer", 0)}
          /\ C' = [C EXCEPT !.bufcap = NEO4J_FIELD_BUFFER_INITIAL_CAPACITY]
          /\ pc' = "csv_check_failure"
          /\ UNCHANGED <<errno, ret>>
    /\ UNCHANGED <<out, flushes, results, T, R, F, parts>>

\* Lines 263-275: the first failure check and the field count.
csv_check_failure ==
    /\ UNCHANGED faults
    /\ pc = "csv_check_failure"
    /\ LET err == neo4j_check_failure(results) IN
       /\ results' = [results EXCEPT !.checks = @ + 1]
       /\ IF err # ""
          THEN /\ errno' = err
               /\ pc' = "csv_failure"
               /\ C' = [C EXCEPT !.err = err]
               /\ UNCHANGED <<heap, ret>>
          ELSE IF no_fields(neo4j_nfields(results))
          THEN /\ heap' = heap \ {Block("buffer", 0)}
               /\ ret' = 0
               /\ pc' = "done"
               /\ C' = [C EXCEPT !.err = err]
               /\ UNCHANGED errno
          ELSE /\ C' = [C EXCEPT !.err = err,
                          !.nfields = neo4j_nfields(results)]
               /\ pc' = "csv_header"
               /\ UNCHANGED <<errno, heap, ret>>
    /\ UNCHANGED <<out, flushes, T, R, F, parts>>

RECURSIVE csv_header_chunks(_, _, _)
csv_header_chunks(i, nfields, names) ==
    IF i > nfields THEN <<<<10>>>>
    ELSE write_csv_quoted_string(names[i])
         \o (IF i < nfields THEN <<<<44>>>> ELSE <<>>)
         \o csv_header_chunks(i + 1, nfields, names)

\* Lines 277-292: the line of field names.
csv_header ==
    /\ UNCHANGED faults
    /\ pc = "csv_header"
    /\ \E names \in [1..C.nfields -> results.names] :
          LET ws == csv_header_chunks(1, C.nfields, names) IN
          \/ \E f \in FailPoints(ws) :
                /\ out' = Emit(out, ws, f - 1)
                /\ errno' = "EIO"
                /\ pc' = "csv_failure"
          \/ /\ out' = Emit(out, ws, Len(ws))
             /\ pc' = "csv_fetch"
             /\ UNCHANGED errno
    /\ UNCHANGED <<flushes, heap, ret, results, T, R, C, F, parts>>

\* Line 295: neo4j_fetch_next.
csv_fetch ==
    /\ UNCHANGED faults
    /\ pc = "csv_fetch"
    /\ \/ /\ results.fetched < MaxRows
          /\ results' = [results EXCEPT !.fetched = @ + 1]
          /\ C' = [C EXCEPT !.i = 1]
          /\ pc' = "csv_field"
       \/ /\ \E failure \in {"", STATEMENT_FAILED} :
                results' = [results EXCEPT !.eof = TRUE, !.failure = failure]
          /\ pc' = "csv_check_failure2"
          /\ UNCHANGED C
    /\ UNCHANGED <<out, flushes, errno, heap, ret, T, R, F, parts>>

\* Lines 297-299 and 309-312: the next field of the row, or the newline
\* that ends the row.
csv_field ==
    /\ UNCHANGED faults
    /\ pc = "csv_field"
    /\ IF C.i <= C.nfields
       THEN /\ \E value \in results.values : C' = [C EXCEPT !.value = value]
            /\ pc' = "csv_write_value"
            /\ UNCHANGED <<out, errno>>
       ELSE /\ UNCHANGED C
            /\ \/ /\ faults
                  /\ out' = out
                  /\ errno' = "EIO"
                  /\ pc' = "csv_failure"
               \/ /\ out' = Write(out, <<10>>)
                  /\ pc' = "csv_fetch"
                  /\ UNCHANGED errno
    /\ UNCHANGED <<flushes, heap, ret, results, T, R, F, parts>>

\* write_value returned 0: lines 304-307, the comma between fields.
csv_after_value(o, buf) ==
    /\ C' = [C EXCEPT !.i = @ + 1, !.buffer = buf]
    /\ IF C.i < C.nfields
       THEN \/ /\ faults
               /\ out' = o
               /\ errno' = "EIO"
               /\ pc' = "csv_failure"
            \/ /\ out' = Write(o, <<44>>)
               /\ pc' = "csv_field"
               /\ UNCHANGED errno
       ELSE /\ out' = o
            /\ pc' = "csv_field"
            /\ UNCHANGED errno

\* What write_value writes once the value needs no (more) stringification.
write_value_chunks(value, buf, flags) ==
    IF value.type = "STRING" THEN write_csv_quoted_string(value.str)
    ELSE IF "SHOW_NULLS" \notin flags /\ value.type = "NULL" THEN <<>>
    ELSE IF value.type \in {"NULL", "BOOL", "INT", "FLOAT"}
         THEN <<CString(buf)>>
    ELSE write_csv_quoted_string(CString(buf))

\* write_value stringifies the value: strings and suppressed nulls do not.
write_value_stringifies(value, flags) ==
    /\ value.type # "STRING"
    /\ ~("SHOW_NULLS" \notin flags /\ value.type = "NULL")

\* Lines 402-417 of write_value: one turn of the loop that finds the
\* staging buffer too small and reallocates it.
write_value_grow ==
    /\ UNCHANGED faults
    /\ pc = "csv_write_value"
    /\ write_value_stringifies(C.value, C.flags)
    /\ LET t == neo4j_ntostring(C.value, C.bufcap) IN
       /\ ~(t.length < C.bufcap)
       /\ \/ /\ faults
             /\ errno' = "ENOMEM"
             /\ pc' = "csv_failure"
             /\ C' = [C EXCEPT !.buffer = t.buf]
          \/ /\ C' = [C EXCEPT !.buffer = t.buf, !.bufcap = t.length]
             /\ UNCHANGED <<pc, errno>>
    /\ UNCHANGED <<out, flushes, heap, ret, results, T, R, F, parts>>

\* Lines 388-428 of write_value without a reallocation, and the comma.
write_value_emit ==
    /\ UNCHANGED faults
    /\ pc = "csv_write_value"
    /\ LET strs == write_value_stringifies(C.value, C.flags)
           t == neo4j_ntostring(C.value, C.bufcap)
           buf == IF strs THEN t.buf ELSE C.buffer
           ws == write_value_chunks(C.value, buf, C.flags)
       IN
       /\ strs => t.length < C.bufcap
       /\ \/ \E f \in FailPoints(ws) :
                /\ out' = Emit(out, ws, f - 1)
                /\ errno' = "EIO"
                /\ pc' = "csv_failure"
                /\ C' = [C EXCEPT !.buffer = buf]
             \/ csv_after_value(Emit(out, ws, Len(ws)), buf)
    /\ UNCHANGED <<flushes, heap, ret, results, T, R, F, parts>>

\* Lines 315-320: the failure check after the last row.
csv_check_failure2 ==
    /\ UNCHANGED faults
    /\ pc = "csv_check_failure2"
    /\ LET err == neo4j_check_failure(results) IN
       /\ results' = [results EXCEPT !.checks = @ + 1]
       /\ C' = [C EXCEPT !.err = err]
       /\ IF err # ""
          THEN /\ errno' = err
               /\ pc' = "csv_failure"
          ELSE /\ pc' = "csv_flush"
               /\ UNCHANGED errno
    /\ UNCHANGED <<out, flushes, heap, ret, T, R, F, parts>>

\* Lines 322-328: flush, release the buffer, return 0.
csv_flush ==
    /\ UNCHANGED faults
    /\ pc = "csv_flush"
    /\ flushes' = flushes + 1
    /\ \/ /\ faults
          /\ errno' = "EIO"
          /\ pc' = "csv_failure"
          /\ UNCHANGED <<heap, ret>>
       \/ /\ heap' = heap \ {Block("buffer", 0)}
          /\ ret' = 0
          /\ pc' = "done"
          /\ UNCHANGED errno
    /\ UNCHANGED <<out, results, T, R, C, F, parts>>

\* Lines 330-339: release the buffer, flush, restore errno, return -1.
csv_failure ==
    /\ UNCHANGED faults
    /\ pc = "csv_failure"
    /\ heap' = heap \ {Block("buffer", 0)}
    /\ flushes' = flushes + 1
    /\ \E ok \in Outcomes :
          errno' = failure_errno(errno, IF ok THEN errno ELSE "EIO")
    /\ ret' = -1
    /\ pc' = "done"
    /\ UNCHANGED <<out, results, T, R, C, F, parts>>

(***************************************************************************)
(* Specification SpecRow: render_row on bounded width vectors and values   *)
(***************************************************************************)
RowNext ==
    \/ render_row_enter
    \/ render_row_column
    \/ render_row_eol
    \/ render_row_wrap_column
    \/ render_row_wrap_eol
    \/ render_row_cleanup

MaxRowColumns == 2

\* Column widths: an elided column, and cell widths 0, 1 and 3.
RowWidths == {0, 2, 3, 5}

\* The strings "abcde", three CJK ideographs, a-tab-b and an invalid byte;
\* the integer 12345.
RowValues ==
    {[type |-> "STRING", str |-> <<97, 98, 99, 100, 101>>],
     [type |-> "STRING", str |-> <<228, 184, 173, 228, 184, 173, 228, 184, 173>>],
     [type |-> "STRING", str |-> <<97, 9, 98>>],
     [type |-> "STRING", str |-> <<255>>],
     [type |-> "INT", str |-> <<49, 50, 51, 52, 53>>]}

RowFlagSets ==
    {normalize_render_flags(flags, codeset_utf8) :
        flags \in SUBSET {"ASCII", "WRAP_VALUES"},
        codeset_utf8 \in BOOLEAN}

\* The capacity of the caller's staging buffer.
RowBufcap == 4

InitRow ==
    /\ pc = "row_enter"
    /\ \E ncolumns \in 1..MaxRowColumns :
          R \in {RowFrame(ncolumns, widths, undersize, flags,
                          "obtain_result_field", "test") :
                     widths \in [1..ncolumns -> RowWidths],
                     undersize \in BOOLEAN, flags \in RowFlagSets}
    /\ T = [NoT EXCEPT !.bufcap = RowBufcap]
    /\ heap = {Block("buffer", 0)}
    /\ results = [NoResults EXCEPT !.values = RowValues]
    /\ out = <<>> /\ flushes = 0 /\ errno = "" /\ ret = 0
    /\ C = NoC /\ F = NoF /\ parts = <<>>
    /\ faults = FALSE

SpecRow == InitRow /\ [][RowNext]_vars

(***************************************************************************)
(* Specification Spec: calls of neo4j_render_table and neo4j_render_csv    *)
(***************************************************************************)
Init ==
    /\ pc = "idle"
    /\ out = <<>> /\ flushes = 0 /\ errno = "" /\ heap = {} /\ ret = 0
    /\ results = NoResults /\ T = NoT /\ R = NoR /\ C = NoC /\ F = NoF
    /\ parts = <<>>
    /\ faults = TRUE

TableNext ==
    \/ neo4j_render_table
    \/ table_check_failure
    \/ table_column_widths
    \/ table_alloc_widths
    \/ table_alloc_buffer
    \/ table_top_rule
    \/ table_header_row
    \/ table_head_rule
    \/ table_fetch
    \/ table_middle_rule
    \/ table_body_row
    \/ table_check_failure2
    \/ table_bottom_rule
    \/ table_flush
    \/ table_failure

CsvNext ==
    \/ neo4j_render_csv
    \/ csv_alloc
    \/ csv_check_failure
    \/ csv_header
    \/ csv_fetch
    \/ csv_field
    \/ write_value_grow
    \/ write_value_emit
    \/ csv_check_failure2
    \/ csv_flush
    \/ csv_failure

Next == TableNext \/ RowNext \/ CsvNext

Spec == Init /\ [][Next]_vars

(***************************************************************************)
(* The claims                                                              *)
(***************************************************************************)
\* Reference definitions for the CSV quoting claim: doubling every quote
\* byte by byte, and the reader's inverse.
RECURSIVE CsvDoubled(_)
CsvDoubled(s) ==
    IF s = <<>> THEN <<>>
    ELSE (IF Head(s) = 34 THEN <<34, 34>> ELSE <<Head(s)>>)
         \o CsvDoubled(Tail(s))

RECURSIVE CsvCollapse(_)
CsvCollapse(s) ==
    IF s = <<>> THEN <<>>
    ELSE IF Head(s) = 34
         THEN IF Len(s) >= 2 /\ s[2] = 34
              THEN <<34>> \o CsvCollapse(Tail(Tail(s)))
              ELSE <<0>>
         ELSE <<Head(s)>> \o CsvCollapse(Tail(s))

\* CsvUnquote yields <<0>> for text that is not a well-formed quoted cell.
CsvUnquote(o) ==
    IF Len(o) < 2 \/ o[1] # 34 \/ o[Len(o)] # 34 THEN <<0>>
    ELSE CsvCollapse(SubSeq(o, 2, Len(o) - 1))

\* C1: a successful render_field call writes exactly cell_width display
\* columns to the sink.
C1_PaddingExact ==
    (pc = "done" /\ ret >= 0) => DisplayCols(out, 1) = F.width

\* C9: write_csv_quoted_string emits an opening quote, the input with
\* every double quote doubled, and a closing quote; stripping the outer
\* quotes and collapsing doubled quotes gives back the input.
C9_QuoteRoundTrip ==
    (pc = "done" /\ ret = 0) =>
        /\ out = <<34>> \o CsvDoubled(F.s) \o <<34>>
        /\ CsvUnquote(out) = F.s

C9_Witness ==
    /\ pc = "done" /\ ret = 0
    /\ Len(F.s) = MaxQuoteLen
    /\ F.s[1] = 34 /\ F.s[Len(F.s)] = 34 /\ F.s[2] = 97

\* The line in the sink without its newline.
LineText(o) ==
    IF o # <<>> /\ o[Len(o)] = 10 THEN SubSeq(o, 1, Len(o) - 1) ELSE o

StartsWith(o, g) == Len(o) >= Len(g) /\ SubSeq(o, 1, Len(g)) = g

EndsWith(o, g) ==
    Len(o) >= Len(g) /\ SubSeq(o, Len(o) - Len(g) + 1, Len(o)) = g

InTable == T.width > 0

\* C2: no line that neo4j_render_table writes is wider than total_width.
C2_LineWithinWidth ==
    InTable => DisplayCols(LineText(out), 1) <= T.width

CeilDiv(a, b) == (a + b - 1) \div b

SetMax(S) == CHOOSE m \in S : \A x \in S : x <= m

\* Every codepoint of text is written raw and is one column wide.
RECURSIVE AllWidthOne(_, _, _)
AllWidthOne(text, pos, flags) ==
    IF pos > Len(text) THEN TRUE
    ELSE LET d == neo4j_u8codepoint(text, pos) IN
         /\ d.cp >= 0
         /\ ~(d.bytes > 1 /\ "ASCII" \in flags)
         /\ neo4j_u8cpwidth(d.cp) = 1
         /\ AllWidthOne(text, pos + d.bytes, flags)

\* Every codepoint of text is written raw: none is escaped.
RECURSIVE NoEscapes(_, _, _)
NoEscapes(text, pos, flags) ==
    IF pos > Len(text) THEN TRUE
    ELSE LET d == neo4j_u8codepoint(text, pos) IN
         /\ d.cp >= 0
         /\ ~(d.bytes > 1 /\ "ASCII" \in flags)
         /\ neo4j_u8cpwidth(d.cp) >= 0
         /\ NoEscapes(text, pos + d.bytes, flags)

ShownColumns == {j \in 1..R.ncolumns : R.widths[j] # 0}

CellWidth(j) == R.widths[j] - 2

\* The lines a field of single-width codepoints needs in a cell.
NeedLines(text, cw) ==
    LET c == CeilDiv(DisplayCols(text, 1), cw) IN IF c < 1 THEN 1 ELSE c

RowSucceeded == pc = "row_cleanup" /\ R.err = 0

\* C3 as stated: with the wrap flag set, a row whose one field is longer
\* than its cell is rendered as ceil(field_display_width / cell_width)
\* lines.
C3_Original ==
    (/\ RowSucceeded /\ "WRAP_VALUES" \in R.flags
     /\ Cardinality(ShownColumns) = 1) =>
        \A j \in ShownColumns :
            (/\ CellWidth(j) >= 1
             /\ NoEscapes(R.texts[j], 1, R.flags)
             /\ DisplayCols(R.texts[j], 1) > CellWidth(j)) =>
                R.lines = CeilDiv(DisplayCols(R.texts[j], 1), CellWidth(j))

WrapScope ==
    /\ "WRAP_VALUES" \in R.flags
    /\ \A j \in ShownColumns : CellWidth(j) >= 1

\* C3 (amended): with the wrap flag set, a row that render_row renders
\* successfully, whose cells are at least one column wide and whose fields
\* consist of codepoints of display width 1, takes as many lines as its
\* longest field needs, max over the columns of
\* ceil(field_display_width / cell_width) and at least one; every line is
\* bordered by vertical glyphs; and in each column the overflow glyph
\* follows the cell on the lines before the field's last line and a space
\* follows it from the field's last line on.
C3_WrapLines ==
    /\ (/\ RowSucceeded /\ WrapScope
        /\ \A j \in ShownColumns : AllWidthOne(R.texts[j], 1, R.flags)) =>
           R.lines = SetMax({1} \cup {NeedLines(R.texts[j], CellWidth(j)) :
                                        j \in ShownColumns})
    /\ (/\ pc \in {"row_wrap_column", "row_cleanup"}
        /\ R.lines >= 1 /\ out # <<>> /\ out[Len(out)] = 10) =>
           LET glifs == glifs_for_encoding(R.flags) IN
           /\ StartsWith(out, glifs.vertical_line)
           /\ EndsWith(out, glifs.vertical_line
                            \o (IF R.undersize THEN glifs.overflow ELSE <<>>)
                            \o <<10>>)
    /\ (/\ pc \in {"row_column", "row_wrap_column"}
        /\ R.i > 1 /\ (R.i - 1) \in ShownColumns
        /\ "WRAP_VALUES" \in R.flags /\ CellWidth(R.i - 1) >= 1
        /\ AllWidthOne(R.texts[R.i - 1], 1, R.flags)) =>
           LET glifs == glifs_for_encoding(R.flags)
               need == NeedLines(R.texts[R.i - 1], CellWidth(R.i - 1))
           IN IF R.lines + 1 < need
              THEN EndsWith(out, glifs.overflow)
              ELSE EndsWith(out, <<32>>)

\* A two-column row whose first field needs five lines and whose second
\* needs two has been rendered.
C3_Witness ==
    /\ RowSucceeded /\ WrapScope
    /\ R.ncolumns = 2 /\ R.widths = <<3, 5>>
    /\ R.texts = <<<<97, 98, 99, 100, 101>>, <<97, 98, 99, 100, 101>>>>
    /\ R.lines = 5

\* The parts neo4j_render_table emits for n rows.
RECURSIVE ExpectedRows(_, _, _)
ExpectedRows(k, n, row_lines) ==
    IF k > n THEN <<>>
    ELSE (IF row_lines /\ k > 1 THEN <<"middle">> ELSE <<>>) \o <<"row">>
         \o ExpectedRows(k + 1, n, row_lines)

ExpectedParts(n, row_lines) ==
    <<"top", "header", "head">> \o ExpectedRows(1, n, row_lines)
    \o <<"bottom">>

IsPrefix(a, b) == Len(a) <= Len(b) /\ SubSeq(b, 1, Len(a)) = a

\* C4: neo4j_render_table emits top rule, header row, head rule, then for
\* each row an optional middle rule (row-lines flag, not the first row) and
\* the row, then one bottom rule, which is never emitted before the source
\* is exhausted.
C4_PartsOrder ==
    InTable =>
        LET expected == ExpectedParts(results.fetched,
                                      "ROW_LINES" \in T.flags) IN
        /\ IsPrefix(parts, expected)
        /\ (parts # <<>> /\ parts[Len(parts)] = "bottom") =>
               (results.eof /\ parts = expected)
        /\ (pc = "done" /\ ret = 0 /\ results.nfields > 0) => parts = expected

C4_Witness ==
    /\ InTable /\ pc = "done" /\ ret = 0
    /\ results.fetched = 2 /\ "ROW_LINES" \in T.flags
    /\ parts = <<"top", "header", "head", "row", "middle", "row", "bottom">>

\* The largest k <= n for which k columns of width at least 2 fit.
LargestK(width, n) ==
    SetMax({0} \cup {k \in 1..n : (width - k - 1) \div k >= 2})

WidthsComputed ==
    /\ InTable
    /\ pc \notin {"idle", "table_check_failure", "table_column_widths", "done"}

\* C5: the retained column count is the largest k <= n whose columns are
\* at least 2 wide (0 if none), every retained column has the width
\* floor((total_width - k - 1) / k), no subtraction wraps, and undersize
\* holds exactly when k < n.
C5_ColumnBudget ==
    WidthsComputed =>
        LET k == T.nfields
            n == results.nfields
        IN
        /\ k = LargestK(T.width, n)
        /\ T.width - k - 1 >= 0
        /\ T.column_width = IF k = 0 THEN 0 ELSE (T.width - k - 1) \div k
        /\ (T.column_width # 0 => T.column_width >= 2)
        /\ T.undersize = (k < n)
        /\ pc # "table_alloc_widths" =>
              /\ Len(T.widths) = k
              /\ \A i \in 1..k : T.widths[i] = T.column_width

C5_Witness ==
    /\ WidthsComputed /\ pc = "table_alloc_buffer"
    /\ results.nfields = 2 /\ T.nfields = 1 /\ T.undersize
    /\ T.widths = <<T.width - 2>>

\* C6: both renderers check the source's failure state before the first
\* fetch and again after the last; a reported failure makes the call return
\* an error whose errno is the source's code, a failure at the first check
\* leaves the sink empty, and after a failure no bottom rule is written.
C6_SourceFailure ==
    /\ (results.fetched > 0 \/ results.eof) => results.checks >= 1
    /\ (pc = "done" /\ ret = 0 /\ results.nfields > 0) =>
           (results.eof /\ results.checks = 2)
    /\ (pc = "done" /\ results.failure # "" /\ results.checks > 0) =>
           /\ ret = -1
           /\ errno = results.failure
           /\ errno \notin {"EIO", "ENOMEM", "EILSEQ"}
           /\ results.checks = 1 => out = <<>>
    /\ (parts # <<>> /\ parts[Len(parts)] = "bottom") => results.failure = ""

\* A table whose source failed after a row was rendered has returned, the
\* flush of the failure path having failed as well.
C6_Witness ==
    /\ InTable /\ pc = "done" /\ ret = -1
    /\ results.failure # "" /\ results.checks = 2 /\ results.fetched >= 1
    /\ out # <<>>

\* C7: every buffer a render call allocated has been released when the
\* call returns.
C7_AllReleased ==
    pc = "done" => heap = {}

\* C8 as stated: for a source without fields both renderers return success
\* and write nothing.
C8_Original ==
    (pc = "done" /\ results.nfields = 0) => (ret = 0 /\ out = <<>>)

\* C8 (amended): for a source without fields neither renderer writes a
\* byte, and the call returns success when the source's failure check was
\* reached and reported no failure; it returns an error when that check
\* reports a failure or when neo4j_render_csv cannot allocate its staging
\* buffer.
C8_ZeroFields ==
    (results.nfields = 0 /\ pc # "idle") =>
        /\ out = <<>>
        /\ pc = "done" =>
              /\ (results.checks >= 1 /\ results.failure = "") => ret = 0
              /\ ret = 0 => (results.checks = 1 /\ results.failure = "")

C8_Witness ==
    /\ pc = "done" /\ results.nfields = 0 /\ ret = 0 /\ out = <<>>
    /\ results.checks = 1 /\ C.bufcap > 0

\* C10: neo4j_render_table has flushed the sink whenever it returns.
C10_FlushBeforeReturn ==
    (InTable /\ pc = "done") => flushes >= 1

\* The continuation-line step of column R.i leaves content in the column:
\* line 352 takes the branch that sets wrap.
WrapStepLeavesContent ==
    /\ pc = "row_wrap_column" /\ R.i <= R.ncolumns
    /\ R.widths[R.i] # 0
    /\ LET rf == render_field(R.fields[R.i].s,
                              (R.widths[R.i] - 2) % UINT_MOD, R.flags)
       IN rf.ok /\ field_overflows(rf.consumed, R.fields[R.i].n)

\* C11: render_row with the wrap flag set terminates, because each
\* continuation line strictly shrinks the remainder of every column that
\* still has content: a continuation step that leaves content in its column
\* leaves fewer bytes than it found.
C11_RemainderShrinks ==
    [][(WrapStepLeavesContent /\ R'.i = R.i + 1) =>
           R'.fields[R.i].n < R.fields[R.i].n]_vars

\* C12: a stringify-grow-retry loop grows the staging buffer at most once
\* per call: the capacity a growth leaves exceeds the length the value
\* needs, so the next attempt fits; and the capacity of the staging buffers
\* never decreases.
C12_GrowOnce ==
    [][/\ (pc = "csv_write_value" /\ C'.bufcap # C.bufcap) =>
              neo4j_ntostring(C.value, C'.bufcap).length < C'.bufcap
       /\ C'.bufcap >= C.bufcap
       /\ T'.bufcap >= T.bufcap]_vars

\* Offset off of text lies between two codepoints (or at an end).
RECURSIVE OnBoundary(_, _, _)
OnBoundary(text, pos, off) ==
    IF off = pos - 1 THEN TRUE
    ELSE IF pos > Len(text) \/ off < pos - 1 THEN FALSE
    ELSE OnBoundary(text, pos + neo4j_u8codepoint(text, pos).bytes, off)

\* The ranges rs, in order, each start where the one before ended, on a
\* codepoint boundary, and together they cover text.
RECURSIVE Contiguous(_, _, _)
Contiguous(text, rs, at) ==
    IF rs = <<>> THEN at = Len(text)
    ELSE /\ Head(rs).from = at
         /\ Head(rs).len >= 0
         /\ OnBoundary(text, 1, at)
         /\ Contiguous(text, Tail(rs), at + Head(rs).len)

\* C13: when render_row succeeds with the wrap flag set, the byte ranges
\* render_field consumed for each column on the first and the continuation
\* lines are contiguous, in order and non-overlapping, begin and end on
\* codepoint boundaries, and together cover exactly the field's bytes.
C13_RangesContiguous ==
    (RowSucceeded /\ "WRAP_VALUES" \in R.flags) =>
        \A j \in ShownColumns : Contiguous(R.texts[j], R.ranges[j], 0)

====
